---- MODULE Spec2Model ----
(***************************************************************************)
(* Model of the agent control loop of video-editing-agent (src/agent.py):  *)
(* run_agent, the LangGraph state graph built by _build_graph (agent node, *)
(* tools node, conditional edge), _invoke_with_retry, the per-superstep    *)
(* SQLite checkpoint, the transcript export and the summary refresh.       *)
(* One project (thread_id) is modelled; runs on it happen one after the    *)
(* other.                                                                  *)
(***************************************************************************)
EXTENDS Integers, Sequences, FiniteSets, TLC

(* ------------------------------ bounds --------------------------------- *)
MaxRuns == 2
MaxStepsArg == 2
MaxCalls == 2
MaxHistory == 7
SmallChars == 40
BigChars == 440000
ReplyChars == 12
MaxBlocks == 3
HugeChars == 800004
MediaRepr == 1400000
PromptChars == 100
MaxSegments == 2
MaxLines == 2
MaxRequests == 2
MaxLoopSteps == 1
MaxPatchOps == 1
MaxHunks == 2
MaxWorkers == 1
MaxConsumers == 1
MaxEvents == 1

(* ------------------------- program constants --------------------------- *)
DEFAULT_RECENT_MESSAGES_LIMIT == 50
DEFAULT_CONTEXT_MAX_TOKENS == 200000
DEFAULT_SUMMARY_TRIGGER_TOKENS == 110000
DEFAULT_SUMMARY_MAX_CHARS == 7500
DEFAULT_MEMORY_EXPORT_MAX_MESSAGES == 300

\* delays = [2, 4, 8] in _invoke_with_retry
delays == <<2, 4, 8>>

\* enumerate([0] + delays): the delay slept before attempt number a (0-based)
schedule == <<0>> \o delays

(* ------------------------------ messages ------------------------------- *)
HumanMessage(mid, n) ==
    [type |-> "human", id |-> mid, calls |-> <<>>, ref |-> 0,
     content |-> "text", chars |-> n]

AIMessage(mid, cs) ==
    [type |-> "ai", id |-> mid, calls |-> cs, ref |-> 0,
     content |-> "text", chars |-> ReplyChars]

ToolMessage(mid, cid, c) ==
    [type |-> "tool", id |-> mid, calls |-> <<>>, ref |-> cid,
     content |-> c, chars |-> ReplyChars]

SystemMessage(mid, n) ==
    [type |-> "system", id |-> mid, calls |-> <<>>, ref |-> 0,
     content |-> "text", chars |-> n]

\* parts of a list content: {"type": "text", "text": ...} carries a "text"
\* key; a video, audio or image block ({"type", "base64", "mime_type"}) does
\* not, and str(part) of it spells out the base64 payload
TextPart(n) == [hasText |-> TRUE, text |-> n, repr |-> n + 28]

MediaPart(r) == [hasText |-> FALSE, text |-> 0, repr |-> r]

\* what one part adds to total_chars in _estimate_tokens
part_chars(p) == IF p.hasText THEN p.text ELSE p.repr

RECURSIVE content_chars(_)
content_chars(parts) ==
    IF parts = <<>> THEN 0
    ELSE part_chars(parts[1]) + content_chars(Tail(parts))

\* HumanMessage(content=parts) of _build_initial_message
MultimodalHumanMessage(mid, ps) ==
    [type |-> "human", id |-> mid, calls |-> <<>>, ref |-> 0,
     content |-> "parts", chars |-> content_chars(ps), parts |-> ps]

Last(s) == s[Len(s)]

Suffix(s, k) == SubSeq(s, Len(s) - k + 1, Len(s))

IsPrefix(s, t) == Len(s) <= Len(t) /\ SubSeq(t, 1, Len(s)) = s

\* total_chars over the messages lo..hi, summed by halves
RECURSIVE SumCharsIn(_, _, _)
SumCharsIn(ms, lo, hi) ==
    IF lo > hi THEN 0
    ELSE IF lo = hi THEN ms[lo].chars
    ELSE LET mid == (lo + hi) \div 2
         IN  SumCharsIn(ms, lo, mid) + SumCharsIn(ms, mid + 1, hi)

SumChars(ms) == SumCharsIn(ms, 1, Len(ms))

Max(a, b) == IF a >= b THEN a ELSE b

\* _estimate_tokens: total characters of the contents, // 4, at least 1
estimate_tokens_last_only(ms) ==
    Max(1, (IF ms = <<>> THEN 0 ELSE ms[Len(ms)].chars) \div 4)

estimate_tokens(ms) == Max(1, SumChars(ms) \div 4)

\* the add_messages reducer of AgentState.messages: a message whose id is
\* already in the channel replaces that entry, any other one is appended
RECURSIVE add_messages(_, _)
add_messages_overwrite(left, right) == right

add_messages(left, right) ==
    IF right = <<>> THEN left
    ELSE LET m == right[1]
             hit == {i \in 1..Len(left) : left[i].id = m.id}
         IN  IF hit = {}
             THEN add_messages(Append(left, m), Tail(right))
             ELSE add_messages([left EXCEPT ![CHOOSE i \in hit : TRUE] = m],
                               Tail(right))

\* _save_memory: drop system messages, keep the most recent 300
save_memory_oldest(ms) ==
    LET filtered == SelectSeq(ms, LAMBDA m : m.type # "system")
    IN  IF Len(filtered) > DEFAULT_MEMORY_EXPORT_MAX_MESSAGES
        THEN SubSeq(filtered, 1, DEFAULT_MEMORY_EXPORT_MAX_MESSAGES)
        ELSE filtered

save_memory(ms) ==
    LET filtered == SelectSeq(ms, LAMBDA m : m.type # "system")
    IN  IF Len(filtered) > DEFAULT_MEMORY_EXPORT_MAX_MESSAGES
        THEN SubSeq(filtered,
                    Len(filtered) - DEFAULT_MEMORY_EXPORT_MAX_MESSAGES + 1,
                    Len(filtered))
        ELSE filtered

\* the conditional edge after the agent node
has_tool_calls_no_ceiling(st) ==
    IF Len(Last(st.messages).calls) > 0 THEN "tools" ELSE "END"

has_tool_calls(st) ==
    IF st.step >= st.max_steps THEN "END"
    ELSE IF Len(Last(st.messages).calls) > 0 THEN "tools"
    ELSE "END"

\* recursion_limit passed to graph.invoke
recursion_limit_single(n) == n

recursion_limit(n) == n * 2

\* the graph engine gives up with GraphRecursionError when a further
\* superstep is due after recursion_limit supersteps of this invocation
out_of_steps(done, n) == done >= recursion_limit(n)

EmptyState == [messages |-> <<>>, step |-> 0, max_steps |-> 0]

VARIABLES
    state,          \* AgentState of the run in progress (channel values)
    ckpt,           \* AgentState held by the project's checkpoint
    pc,             \* "idle", "agent", "tools", "done", "summarize"
    attempt,        \* index of the next attempt inside _invoke_with_retry
    slept,          \* delays slept so far inside the current model call
    callResult,     \* "none", "pending", "returned", "raised"
    summary,        \* conversation summary loaded at run start (length)
    summaryFile,    \* content of .memory-summary.txt (length, 0 = absent)
    memoryFile,     \* content of .memory.jsonl (sequence of messages)
    handle_tool_errors, \* ToolNode default: "all" or "invocation_only"
    runs,           \* number of run_agent calls so far
    argMaxSteps,    \* max_steps argument of the latest run
    outcome,        \* of the latest run: "none", "returned", "raised"
    cause,          \* why the latest run raised
    invocations,    \* logical loop model calls begun in the latest run
    supersteps,     \* graph supersteps executed in the latest run
    dispatched,     \* call ids handed to a tool handler in the latest run
    nextId,         \* source of fresh message and call identifiers
    ctx,            \* context of the latest model invocation of the run
    result,         \* what the latest run returned: message id and form
    history,        \* a message sequence handed to the memory functions
    nblocks,        \* number of blocks history was built from
    mop,            \* memory function applied last
    estimated,      \* _estimate_tokens(history)
    context,        \* result of _build_message_context(history, ...)
    window,         \* the trimmed window inside context
    transcript,     \* what _save_memory(history) writes
    ctx_project_id, \* tools.py context variable: the active project's name
    pathArg,        \* path handed to _safe_project_path last
    pathResult,     \* what _safe_project_path made of it
    transcriptFile, \* lines of .memory.jsonl as a reader finds them
    exportOld,      \* the lines the file held when _save_memory opened it
    exportNew,      \* the lines _save_memory is writing or wrote last
    exportOpen,     \* inside "with path.open(...)" of _save_memory
    loaded,         \* what app._read_messages came to last
    summaryDisk,    \* condition of .memory-summary.txt as a reader finds it
    loadedSummary,  \* what _load_summary came to last
    reqPc,          \* per request on one project: where its run stands
    reqSteps,       \* per request: loop iterations done
    log,            \* writes to the project's persisted state, in order
    patchFs,        \* the project's files apply_patch works on
    patchBefore,    \* the files as the latest apply_patch call found them
    patchArg,       \* the file operations of the latest patch
    patchSteps,     \* per operation: the files after it, entries it reported
    patchResult,    \* what the latest apply_patch call returned
    evLoop,         \* events._loop is set
    evQueues,       \* events._queues: session -> queue object (0 = no entry)
    evItems,        \* the queue objects created so far: key, maker, content
    evCallbacks,    \* callbacks scheduled on the loop, not yet run
    evWorkers,      \* per worker thread: where its emit stands (session is
                    \* the argument of the call in progress), whether the
                    \* asset check passed, its result
    evStreams,      \* per stream(): where it stands, what it has yielded
    evEmitted,      \* the events for which emit returned True, in order
    evCount         \* payloads built so far

mainvars == <<state, ckpt, pc, attempt, slept, callResult, summary,
              summaryFile, memoryFile, handle_tool_errors, runs, argMaxSteps,
              outcome, cause, invocations, supersteps, dispatched, nextId,
              ctx, result>>

mvars == <<history, nblocks, mop, estimated, context, window, transcript>>

pathvars == <<ctx_project_id, pathArg, pathResult>>

filevars == <<transcriptFile, exportOld, exportNew, exportOpen, loaded,
              summaryDisk, loadedSummary>>

concvars == <<reqPc, reqSteps, log>>

patchvars == <<patchFs, patchBefore, patchArg, patchSteps, patchResult>>

eventvars == <<evLoop, evQueues, evItems, evCallbacks, evWorkers, evStreams,
               evEmitted, evCount>>

toolvars == <<patchvars, eventvars>>

auxvars == <<pathvars, filevars, concvars, toolvars>>

vars == <<mainvars, mvars, auxvars>>

MemoryIdle ==
    /\ history = <<>>
    /\ nblocks = 0
    /\ mop = "none"
    /\ estimated = estimate_tokens(<<>>)
    /\ context = <<>>
    /\ window = <<>>
    /\ transcript = <<>>

\* ContextVar("project_id", default="")
PathsIdle ==
    /\ ctx_project_id = <<>>
    /\ pathArg = "none"
    /\ pathResult = [status |-> "none", target |-> <<>>]

FilesIdle ==
    /\ transcriptFile = <<>>
    /\ exportOld = <<>>
    /\ exportNew = <<>>
    /\ exportOpen = FALSE
    /\ loaded = [status |-> "none", messages |-> <<>>]
    /\ summaryDisk = "absent"
    /\ loadedSummary = [status |-> "none", text |-> "empty"]

Requests == 1..MaxRequests

RequestsIdle ==
    /\ reqPc = [r \in Requests |-> "idle"]
    /\ reqSteps = [r \in Requests |-> 0]
    /\ log = <<>>

\* no file in the project directory, no patch applied yet
PatchIdle ==
    /\ patchFs = {}
    /\ patchBefore = {}
    /\ patchArg = <<>>
    /\ patchSteps = <<>>
    /\ patchResult = [applied |-> <<>>, errors |-> <<>>]

Sessions == {"s1", "s2"}

Workers == 1..MaxWorkers

Consumers == 1..MaxConsumers

NoEvent == [id |-> 0, session |-> "none"]

\* module import: _loop = None, _queues = {}; no emit and no stream yet
EventsIdle ==
    /\ evLoop = FALSE
    /\ evQueues = [s \in Sessions |-> 0]
    /\ evItems = <<>>
    /\ evCallbacks = <<>>
    /\ evWorkers = [w \in Workers |->
                        [pc |-> "idle", session |-> "none", asset |-> FALSE,
                         ev |-> NoEvent, ok |-> "none", result |-> "none"]]
    /\ evStreams = [c \in Consumers |->
                        [pc |-> "off", session |-> "none", q |-> 0,
                         got |-> <<>>]]
    /\ evEmitted = <<>>
    /\ evCount = 0

Init ==
    /\ MemoryIdle
    /\ PathsIdle
    /\ FilesIdle
    /\ RequestsIdle
    /\ PatchIdle
    /\ EventsIdle
    /\ state = EmptyState
    /\ ckpt = EmptyState
    /\ pc = "idle"
    /\ attempt = 0
    /\ slept = <<>>
    /\ callResult = "none"
    /\ summary = 0
    /\ summaryFile = 0
    /\ memoryFile = <<>>
    /\ handle_tool_errors \in {"all", "invocation_only"}
    /\ runs = 0
    /\ argMaxSteps = 0
    /\ outcome = "none"
    /\ cause = "none"
    /\ invocations = 0
    /\ supersteps = 0
    /\ dispatched = <<>>
    /\ nextId = 1
    /\ ctx = <<>>
    /\ result = "none"


(* ------------------------ _build_message_context ----------------------- *)
\* messages[-DEFAULT_RECENT_MESSAGES_LIMIT:]
recent_messages(ms) ==
    IF Len(ms) > DEFAULT_RECENT_MESSAGES_LIMIT
    THEN Suffix(ms, DEFAULT_RECENT_MESSAGES_LIMIT)
    ELSE ms

\* trim_messages, strategy="last", allow_partial=False: how many of the most
\* recent messages fit max_tokens under the token counter; 0 when not even
\* the last one fits
fitting(rs) ==
    LET ok == { k \in 1..Len(rs) :
                  estimate_tokens(Suffix(rs, k)) <= DEFAULT_CONTEXT_MAX_TOKENS }
    IN  IF ok = {} THEN 0 ELSE CHOOSE k \in ok : \A j \in ok : j <= k

\* trim_messages, start_on="human": the oldest messages of the fitting part
\* are dropped until the oldest one left is a user turn; nothing is left
\* when the fitting part holds no user turn
start_on_any(rs, k) == k

start_on_human(rs, k) ==
    LET hs == { j \in 1..k : rs[Len(rs) - j + 1].type = "human" }
    IN  IF hs = {} THEN 0 ELSE CHOOSE j \in hs : \A i \in hs : i <= j

trim_messages(rs) == Suffix(rs, start_on_human(rs, fitting(rs)))

\* the try block of _build_message_context: trim_messages returns a list,
\* possibly an empty one, for every message list and raises for none, so
\* "except Exception: trimmed = recent" is never entered
trimmed_window(ms) == trim_messages(recent_messages(ms))

\* length of "Conversation summary so far. ... already completed work:\n"
SummaryHeaderChars == 92

\* system prompt, the summary message when the summary is not empty, then
\* the trimmed window
build_message_context_no_summary(ms, s) ==
    <<SystemMessage(0, PromptChars)>> \o trimmed_window(ms)

build_message_context(ms, s) ==
    <<SystemMessage(0, PromptChars)>>
      \o (IF s > 0 THEN <<SystemMessage(0, SummaryHeaderChars + s)>> ELSE <<>>)
      \o trimmed_window(ms)

(* --------------------------- _invoke_with_retry ------------------------ *)
\* time.sleep(delay) before every attempt but the first
sleep_before(a, sl) == IF a > 0 THEN Append(sl, schedule[a + 1]) ELSE sl

\* "if attempt >= len(delays): raise"
retry_exhausted_early(a) == a >= Len(delays) - 1

retry_exhausted(a) == a >= Len(delays)

\* what the caller does with the failure _invoke_with_retry raises: the
\* agent node lets it leave graph.invoke and run_agent re-raises it; the
\* summarizer catches it and returns the existing summary
after_retries_exhausted_swallowed(caller) == "returned"

after_retries_exhausted_always_raised(caller) == "raised"

after_retries_exhausted(caller) ==
    IF caller = "summarize" THEN "returned" ELSE "raised"

\* the responses the bound model may produce: a turn with 0..MaxCalls tool
\* calls, each with its own call identifier (a turn with calls is drawn only
\* while the history has room for its results and the next turn); the turn
\* with a single call comes without any text
Responses ==
    { [AIMessage(nextId, [j \in 1..k |-> [id |-> nextId + j]])
          EXCEPT !.chars = IF k = 1 THEN 0 ELSE ReplyChars]
      : k \in { i \in 0..MaxCalls :
                    Len(state.messages) + 1 + (IF i > 0 THEN i + 1 ELSE 0)
                        <= MaxHistory } }

\* texts the summarizer model may return: n = length after strip(),
\* ws = whitespace characters right before position 7500 of the stripped text
SummaryTexts ==
    { [n |-> 0, ws |-> 0], [n |-> 30, ws |-> 0], [n |-> 7600, ws |-> 2] }

\* summary[:7500].rstrip() + "..." when the text is longer than the ceiling
truncate_summary(r) ==
    IF r.n > DEFAULT_SUMMARY_MAX_CHARS
    THEN DEFAULT_SUMMARY_MAX_CHARS - r.ws + 3
    ELSE r.n

(* ------------------------------ run_agent ------------------------------ *)
\* GOOGLE_API_KEY is not set: RuntimeError before anything else is touched
run_agent_missing_key_after_export ==
    /\ UNCHANGED <<mvars, auxvars>>
    /\ ctx' = <<>>
    /\ result' = "none"
    /\ pc = "idle"
    /\ runs < MaxRuns
    /\ runs' = runs + 1
    /\ outcome' = "raised"
    /\ cause' = "credential"
    /\ invocations' = 0
    /\ supersteps' = 0
    /\ dispatched' = <<>>
    /\ attempt' = 0
    /\ slept' = <<>>
    /\ callResult' = "none"
    /\ memoryFile' = <<>>
    /\ UNCHANGED <<state, ckpt, pc, summary, summaryFile,
                   handle_tool_errors, argMaxSteps, nextId>>

run_agent_missing_key ==
    /\ UNCHANGED <<mvars, auxvars>>
    /\ ctx' = <<>>
    /\ result' = "none"
    /\ pc = "idle"
    /\ runs < MaxRuns
    /\ runs' = runs + 1
    /\ outcome' = "raised"
    /\ cause' = "credential"
    /\ invocations' = 0
    /\ supersteps' = 0
    /\ dispatched' = <<>>
    /\ attempt' = 0
    /\ slept' = <<>>
    /\ callResult' = "none"
    /\ UNCHANGED <<state, ckpt, pc, summary, summaryFile, memoryFile,
                   handle_tool_errors, argMaxSteps, nextId>>

\* graph.invoke with recursion_limit = max_steps * 2 < 1: the graph engine
\* rejects the config before the input is applied or any node runs
run_agent_bad_limit ==
    /\ UNCHANGED <<mvars, auxvars>>
    /\ ctx' = <<>>
    /\ result' = "none"
    /\ pc = "idle"
    /\ runs < MaxRuns
    /\ \E n \in 0..MaxStepsArg :
        /\ recursion_limit(n) < 1
        /\ argMaxSteps' = n
        /\ runs' = runs + 1
        /\ summary' = summaryFile
        /\ outcome' = "raised"
        /\ cause' = "recursion_limit"
        /\ invocations' = 0
        /\ supersteps' = 0
        /\ dispatched' = <<>>
        /\ attempt' = 0
        /\ slept' = <<>>
        /\ callResult' = "none"
        /\ UNCHANGED <<state, ckpt, pc, summaryFile, memoryFile,
                       handle_tool_errors, nextId>>

\* the input of graph.invoke: "step": 0, "max_steps": max_steps; both
\* channels of AgentState have no reducer, so the input overwrites what the
\* checkpoint of the thread held
input_state_keep_step(n) == [step |-> ckpt.step, max_steps |-> n]

input_state(n) == [step |-> 0, max_steps |-> n]

\* run start: load the summary, build the user turn, merge the input into
\* the checkpointed state of thread_id = project, enter the agent node
run_agent_start ==
    /\ UNCHANGED <<mvars, auxvars>>
    /\ ctx' = <<>>
    /\ result' = "none"
    /\ pc = "idle"
    /\ runs < MaxRuns
    /\ Len(ckpt.messages) + 2 <= MaxHistory
    /\ \E n \in 0..MaxStepsArg, c \in {SmallChars, BigChars} :
        /\ recursion_limit(n) >= 1
        /\ argMaxSteps' = n
        /\ runs' = runs + 1
        /\ summary' = summaryFile
        /\ state' = [messages |-> add_messages(ckpt.messages,
                                               <<HumanMessage(nextId, c)>>),
                     step |-> input_state(n).step,
                     max_steps |-> input_state(n).max_steps]
        /\ ckpt' = state'
        /\ nextId' = nextId + 1
        /\ pc' = "agent"
        /\ attempt' = 0
        /\ slept' = <<>>
        /\ callResult' = "pending"
        /\ outcome' = "none"
        /\ cause' = "none"
        /\ invocations' = 0
        /\ supersteps' = 0
        /\ dispatched' = <<>>
        /\ UNCHANGED <<summaryFile, memoryFile, handle_tool_errors>>

(* --------------------------- the agent node ---------------------------- *)
\* one attempt of the loop's model call fails
call_model_attempt_fails_exporting ==
    /\ UNCHANGED <<mvars, auxvars>>
    /\ pc = "agent"
    /\ callResult = "pending"
    /\ ctx' = build_message_context(state.messages, summary)
    /\ UNCHANGED result
    /\ slept' = sleep_before(attempt, slept)
    /\ invocations' = IF attempt = 0 THEN invocations + 1 ELSE invocations
    /\ IF retry_exhausted(attempt)
       THEN /\ callResult' = "raised"
            /\ pc' = "idle"
            /\ outcome' = after_retries_exhausted(pc)
            /\ cause' = "model"
            /\ memoryFile' = save_memory(state.messages)
            /\ UNCHANGED attempt
       ELSE /\ attempt' = attempt + 1
            /\ UNCHANGED <<callResult, pc, outcome, cause, memoryFile>>
    /\ UNCHANGED <<state, ckpt, summary, summaryFile,
                   handle_tool_errors, runs, argMaxSteps, supersteps,
                   dispatched, nextId>>

call_model_attempt_fails ==
    /\ UNCHANGED <<mvars, auxvars>>
    /\ pc = "agent"
    /\ callResult = "pending"
    /\ ctx' = build_message_context(state.messages, summary)
    /\ UNCHANGED result
    /\ slept' = sleep_before(attempt, slept)
    /\ invocations' = IF attempt = 0 THEN invocations + 1 ELSE invocations
    /\ IF retry_exhausted(attempt)
       THEN /\ callResult' = "raised"
            /\ pc' = "idle"
            /\ outcome' = after_retries_exhausted(pc)
            /\ cause' = "model"
            /\ UNCHANGED attempt
       ELSE /\ attempt' = attempt + 1
            /\ UNCHANGED <<callResult, pc, outcome, cause>>
    /\ UNCHANGED <<state, ckpt, summary, summaryFile, memoryFile,
                   handle_tool_errors, runs, argMaxSteps, supersteps,
                   dispatched, nextId>>

\* one attempt succeeds: _call_model returns the response and step + 1, the
\* conditional edge routes, the superstep's checkpoint is written
step_after_model_unchanged(st) == st.step

step_after_model(st) == st.step + 1

call_model ==
    /\ UNCHANGED <<mvars, auxvars>>
    /\ pc = "agent"
    /\ callResult = "pending"
    /\ ctx' = build_message_context(state.messages, summary)
    /\ UNCHANGED result
    /\ \E response \in Responses :
        /\ slept' = sleep_before(attempt, slept)
        /\ invocations' = IF attempt = 0 THEN invocations + 1 ELSE invocations
        /\ callResult' = "returned"
        /\ state' = [state EXCEPT
                        !.messages = add_messages(@, <<response>>),
                        !.step = step_after_model(state)]
        /\ ckpt' = state'
        /\ nextId' = nextId + 1 + Len(response.calls)
        /\ supersteps' = supersteps + 1
        /\ IF has_tool_calls(state') # "tools"
           THEN /\ pc' = "done"
                /\ UNCHANGED <<outcome, cause>>
           ELSE IF out_of_steps(supersteps', argMaxSteps)
           THEN /\ pc' = "idle"
                /\ outcome' = "raised"
                /\ cause' = "recursion_limit"
           ELSE /\ pc' = "tools"
                /\ UNCHANGED <<outcome, cause>>
        /\ UNCHANGED <<attempt, summary, summaryFile, memoryFile,
                       handle_tool_errors, runs, argMaxSteps, dispatched>>

(* --------------------------- the tools node ---------------------------- *)
\* what one requested call can come to: a name that matches no registered
\* tool is answered by ToolNode itself with an error message; a registered
\* handler returns its result, returns an error text (run_terminal on
\* TimeoutExpired, a rejected path), or raises (unguarded I/O in read_file,
\* write_file, inspect_asset)
CallOutcomes == {"ok", "error_text", "raised", "invalid_tool"}

\* ToolNode(tools) is built with the default handle_tool_errors: up to
\* LangGraph 0.x the default turns every exception into an error message,
\* from 1.0 on it only answers argument-validation errors and re-raises what
\* a handler raised
propagates(outs) ==
    /\ handle_tool_errors = "invocation_only"
    /\ \E j \in DOMAIN outs : outs[j] = "raised"

\* the content of the tool message written for one call
tool_content(out) == IF out = "ok" THEN "result" ELSE "error"

\* the tool messages of one model turn: one per call, in request order
tool_messages(calls, outs, firstId) ==
    [j \in 1..Len(calls) |->
        ToolMessage(firstId + j - 1, calls[j].id, tool_content(outs[j]))]

tool_node ==
    /\ UNCHANGED <<mvars, auxvars>>
    /\ UNCHANGED <<ctx, result>>
    /\ pc = "tools"
    /\ LET calls == Last(state.messages).calls
       IN  \E outs \in [1..Len(calls) -> CallOutcomes] :
            /\ dispatched' = dispatched \o
                    [j \in 1..Len(calls) |-> calls[j].id]
            /\ IF propagates(outs)
               THEN /\ pc' = "idle"
                    /\ outcome' = "raised"
                    /\ cause' = "tool"
                    /\ UNCHANGED <<state, ckpt, nextId, supersteps, attempt,
                                   slept, callResult>>
               ELSE /\ state' = [state EXCEPT !.messages =
                            add_messages(@, tool_messages(calls, outs,
                                                          nextId))]
                    /\ ckpt' = state'
                    /\ nextId' = nextId + Len(calls)
                    /\ supersteps' = supersteps + 1
                    /\ attempt' = 0
                    /\ slept' = <<>>
                    /\ IF out_of_steps(supersteps', argMaxSteps)
                       THEN /\ pc' = "idle"
                            /\ outcome' = "raised"
                            /\ cause' = "recursion_limit"
                            /\ callResult' = "none"
                       ELSE /\ pc' = "agent"
                            /\ callResult' = "pending"
                            /\ UNCHANGED <<outcome, cause>>
    /\ UNCHANGED <<summary, summaryFile, memoryFile, handle_tool_errors,
                   runs, argMaxSteps, invocations>>

(* ------------------------- after the graph ended ----------------------- *)
\* last = new_messages[-1]; getattr(last, "text", None) or str(last): the
\* text of the last message, its string form when the text is empty
returned_value_first(ms) ==
    [id |-> ms[1].id, form |-> IF ms[1].chars > 0 THEN "text" ELSE "str"]

returned_value(ms) ==
    [id |-> Last(ms).id, form |-> IF Last(ms).chars > 0 THEN "text" ELSE "str"]

\* "if estimated_tokens < DEFAULT_SUMMARY_TRIGGER_TOKENS: return"
below_trigger_never(ms) == FALSE

below_trigger_last_turn(ms) ==
    estimate_tokens(<<Last(ms)>>) < DEFAULT_SUMMARY_TRIGGER_TOKENS

below_trigger(ms) == estimate_tokens(ms) < DEFAULT_SUMMARY_TRIGGER_TOKENS

\* _save_memory, then the trigger test of _update_summary_if_needed: below
\* the trigger the run returns, otherwise the summarizer model is called
finish_run_refresh_first ==
    /\ UNCHANGED <<mvars, auxvars>>
    /\ UNCHANGED ctx
    /\ pc = "done"
    /\ pc' = "summarize"
    /\ attempt' = 0
    /\ slept' = <<>>
    /\ callResult' = "pending"
    /\ UNCHANGED <<state, ckpt, summary, summaryFile, memoryFile,
                   handle_tool_errors, runs, argMaxSteps, outcome, cause,
                   invocations, supersteps, dispatched, nextId, result>>

finish_run ==
    /\ UNCHANGED <<mvars, auxvars>>
    /\ UNCHANGED ctx
    /\ pc = "done"
    /\ memoryFile' = save_memory(state.messages)
    /\ IF below_trigger(state.messages)
       THEN /\ pc' = "idle"
            /\ outcome' = "returned"
            /\ result' = returned_value(state.messages)
            /\ attempt' = 0
            /\ slept' = <<>>
            /\ callResult' = "none"
       ELSE /\ pc' = "summarize"
            /\ attempt' = 0
            /\ slept' = <<>>
            /\ callResult' = "pending"
            /\ UNCHANGED <<outcome, result>>
    /\ UNCHANGED <<state, ckpt, summary, summaryFile, handle_tool_errors,
                   runs, argMaxSteps, cause, invocations, supersteps,
                   dispatched, nextId>>

\* one attempt of the summarizer's model call fails; once the retries are
\* used up the except branch returns the existing summary
summarizer_attempt_fails ==
    /\ UNCHANGED <<mvars, auxvars>>
    /\ UNCHANGED ctx
    /\ pc = "summarize"
    /\ callResult = "pending"
    /\ slept' = sleep_before(attempt, slept)
    /\ IF retry_exhausted(attempt)
       THEN /\ callResult' = "raised"
            /\ pc' = "idle"
            /\ outcome' = after_retries_exhausted(pc)
            /\ result' = returned_value(state.messages)
            /\ UNCHANGED attempt
       ELSE /\ attempt' = attempt + 1
            /\ UNCHANGED <<callResult, pc, outcome, result>>
    /\ UNCHANGED <<state, ckpt, summary, summaryFile, memoryFile,
                   handle_tool_errors, runs, argMaxSteps, cause, invocations,
                   supersteps, dispatched, nextId>>

\* the summarizer's call succeeds: strip, truncate, _save_summary, return
summarizer_returns ==
    /\ UNCHANGED <<mvars, auxvars>>
    /\ UNCHANGED ctx
    /\ pc = "summarize"
    /\ callResult = "pending"
    /\ result' = returned_value(state.messages)
    /\ \E r \in SummaryTexts :
        /\ slept' = sleep_before(attempt, slept)
        /\ callResult' = "returned"
        /\ summary' = truncate_summary(r)
        /\ summaryFile' = summary'
        /\ pc' = "idle"
        /\ outcome' = "returned"
        /\ UNCHANGED <<state, ckpt, attempt, memoryFile, handle_tool_errors,
                       runs, argMaxSteps, cause, invocations, supersteps,
                       dispatched, nextId>>

Next ==
    \/ run_agent_missing_key
    \/ run_agent_bad_limit
    \/ run_agent_start
    \/ call_model_attempt_fails
    \/ call_model
    \/ tool_node
    \/ finish_run
    \/ summarizer_attempt_fails
    \/ summarizer_returns

Spec == Init /\ [][Next]_vars

(* ------------------- the memory functions on their own ----------------- *)
\* kind and number of the messages appended in one go: single messages of
\* every kind, as many tool-calling turns with their results as the
\* candidate window is long, and a run of user turns longer than the
\* transcript export keeps
Blocks ==
    { [kind |-> k, count |-> 1] :
        k \in {"human", "human_huge", "human_media", "ai", "ai_calls",
                "tool", "system"} }
    \cup { [kind |-> "turns", count |-> DEFAULT_RECENT_MESSAGES_LIMIT],
            [kind |-> "human",
             count |-> DEFAULT_MEMORY_EXPORT_MAX_MESSAGES + 1] }

\* run_agent puts the user's message first, so a history begins with one
UserKinds == {"human", "human_huge", "human_media"}

\* the i-th message of a block of the given kind, with identifier mid
block_message(kind, mid, i) ==
    CASE kind = "human"       -> HumanMessage(mid, SmallChars)
      [] kind = "human_huge"  -> HumanMessage(mid, HugeChars)
      [] kind = "human_media" ->
            MultimodalHumanMessage(mid,
                <<MediaPart(MediaRepr), TextPart(SmallChars)>>)
      [] kind = "ai"          -> AIMessage(mid, <<>>)
      [] kind = "ai_calls"    -> AIMessage(mid, <<[id |-> mid]>>)
      [] kind = "tool"        -> ToolMessage(mid, mid - 1, "text")
      [] kind = "system"      -> SystemMessage(mid, SmallChars)
      [] kind = "turns"       ->
            IF i % 2 = 1 THEN AIMessage(mid, <<[id |-> mid]>>)
            ELSE ToolMessage(mid, mid - 1, "text")

Block(kind, first, count) ==
    [i \in 1..count |-> block_message(kind, first + i - 1, i)]

InitMemory ==
    /\ Init
    /\ handle_tool_errors = "all"

\* the accumulated messages grow by a block of messages of one kind; the
\* identifier of a message is its position
append_block ==
    /\ nblocks < MaxBlocks
    /\ \E b \in Blocks :
        /\ history = <<>> => b.kind \in UserKinds
        /\ history' = history \o Block(b.kind, Len(history) + 1, b.count)
    /\ nblocks' = nblocks + 1
    /\ estimated' = estimate_tokens(history')
    /\ mop' = "append"
    /\ context' = <<>>
    /\ window' = <<>>
    /\ transcript' = <<>>
    /\ UNCHANGED <<mainvars, auxvars>>

\* _build_message_context(state["messages"], summary, system_prompt)
build_context ==
    /\ history # <<>>
    /\ \E s \in {0, 30} : context' = build_message_context(history, s)
    /\ window' = trimmed_window(history)
    /\ mop' = "context"
    /\ transcript' = <<>>
    /\ UNCHANGED <<history, nblocks, estimated>>
    /\ UNCHANGED <<mainvars, auxvars>>

\* _save_memory(project, messages)
export_memory ==
    /\ history # <<>>
    /\ transcript' = save_memory(history)
    /\ mop' = "export"
    /\ context' = <<>>
    /\ window' = <<>>
    /\ UNCHANGED <<history, nblocks, estimated>>
    /\ UNCHANGED <<mainvars, auxvars>>

NextMemory ==
    \/ append_block
    \/ build_context
    \/ export_memory

SpecMemory == InitMemory /\ [][NextMemory]_vars

(* ------------------------ tools._safe_project_path --------------------- *)
\* a file name is a sequence of characters, a path a sequence of names
Dotdot == <<".", ".">>

ProjectIds == { <<"a">>, <<"a", "b">>, <<"A">> }

Names == ProjectIds \cup { <<"f">> }

\* PROJECTS_ROOT, resolved
PROJECTS_ROOT == << <<"r">> >>

\* Path.resolve(): ".." steps to the parent, the root is its own parent
RECURSIVE resolve(_, _)
resolve(done, rest) ==
    IF rest = <<>> THEN done
    ELSE IF rest[1] = Dotdot
         THEN resolve(IF done = <<>> THEN done
                      ELSE SubSeq(done, 1, Len(done) - 1), Tail(rest))
         ELSE resolve(Append(done, rest[1]), Tail(rest))

\* str(path): the names, each after a separator
RECURSIVE path_str(_)
path_str(parts) ==
    IF parts = <<>> THEN <<>>
    ELSE <<"/">> \o parts[1] \o path_str(Tail(parts))

\* str.lower()
lower(cs) == [i \in DOMAIN cs |-> IF cs[i] = "A" THEN "a" ELSE cs[i]]

\* str.startswith
startswith(cs, prefix) == IsPrefix(prefix, cs)

\* the directory the path must stay in
project_root(project) ==
    IF project = <<>> THEN PROJECTS_ROOT ELSE Append(PROJECTS_ROOT, project)

\* _safe_project_path(path) under the active project: an absolute path is
\* made relative to the root by its leading names (ValueError when they
\* differ), the result is resolved under the root and its string is tested
\* against the root's string
safe_project_path(project, path) ==
    LET root == project_root(project)
    IN  IF path.absolute /\ ~IsPrefix(root, path.parts)
        THEN [status |-> "error", target |-> <<>>]
        ELSE LET rel == IF path.absolute
                        THEN SubSeq(path.parts, Len(root) + 1, Len(path.parts))
                        ELSE path.parts
                 target == resolve(<<>>, root \o rel)
             IN  IF startswith(lower(path_str(target)), lower(path_str(root)))
                 THEN [status |-> "ok", target |-> target]
                 ELSE [status |-> "error", target |-> <<>>]

RECURSIVE SeqsUpTo(_, _)
SeqsUpTo(S, n) ==
    IF n = 0 THEN { <<>> }
    ELSE LET shorter == SeqsUpTo(S, n - 1)
         IN  shorter \cup { Append(q, x) : q \in shorter, x \in S }

\* the paths a tool call may name: relative ones, and absolute ones that
\* begin at a project directory or elsewhere
PathArgs ==
    LET segs == SeqsUpTo(Names \cup {Dotdot}, MaxSegments)
    IN  { [absolute |-> FALSE, parts |-> q] : q \in segs }
        \cup { [absolute |-> TRUE, parts |-> pre \o q] :
                 pre \in { project_root(id) : id \in ProjectIds }
                         \cup { << <<"f">> >> },
                 q \in segs }

\* run_agent: ctx_project_id.set(project)
set_project ==
    /\ \E id \in ProjectIds : ctx_project_id' = id
    /\ pathArg' = "none"
    /\ pathResult' = [status |-> "none", target |-> <<>>]
    /\ UNCHANGED <<mainvars, mvars, filevars, concvars, toolvars>>

\* a tool handler validates the path it was given
call_safe_project_path ==
    /\ \E path \in PathArgs :
        /\ pathArg' = path
        /\ pathResult' = safe_project_path(ctx_project_id, path)
    /\ UNCHANGED ctx_project_id
    /\ UNCHANGED <<mainvars, mvars, filevars, concvars, toolvars>>

NextPaths ==
    \/ set_project
    \/ call_safe_project_path

SpecPaths == InitMemory /\ [][NextPaths]_vars

(* --------------------- the transcript and summary files ---------------- *)
\* what a line of .memory.jsonl can be to app._read_messages: a message
\* record as messages_to_dict writes it, an empty line, text that is not
\* JSON, JSON that is not an object, an object whose "data" is not an object
LineKinds == {"message", "blank", "garbage", "scalar", "bad_data"}

Line(kind, n) == [kind |-> kind, id |-> IF kind = "message" THEN n ELSE 0]

\* the lines _save_memory writes for a transcript of k messages
Export(k) == [i \in 1..k |-> Line("message", i)]

\* any content: every line of any kind
Contents ==
    UNION { [1..n -> { Line(k, 1) : k \in LineKinds }] : n \in 0..MaxLines }

\* app._read_messages: json.loads of every non-empty line inside try/except
\* that returns []; the loop over the parsed items stands outside the try,
\* and item.get / payload.get raise AttributeError on what is not an object
read_messages(lines) ==
    LET items == SelectSeq(lines, LAMBDA l : l.kind # "blank")
    IN  IF \E i \in DOMAIN items : items[i].kind = "garbage"
        THEN [status |-> "ok", messages |-> <<>>]
        ELSE IF \E i \in DOMAIN items : items[i].kind \in {"scalar", "bad_data"}
        THEN [status |-> "raised", messages |-> <<>>]
        ELSE [status |-> "ok", messages |-> items]

\* conditions of the summary file: not there, text, whitespace only, text
\* with bytes that are not UTF-8, a file that cannot be read
SummaryConditions == {"absent", "text", "blank", "undecodable", "unreadable"}

\* _load_summary: "" when the file is absent or reading raises; otherwise
\* read_text(errors="ignore").strip(), which drops the undecodable bytes
\* and keeps the rest
load_summary(cond) ==
    [status |-> "ok",
     text |-> IF cond \in {"text", "undecodable"} THEN "text" ELSE "empty"]

\* path.open("w") of _save_memory: the file is truncated at once
save_memory_open ==
    /\ ~exportOpen
    /\ \E k \in 1..MaxLines : exportNew' = Export(k)
    /\ exportOld' = transcriptFile
    /\ transcriptFile' = <<>>
    /\ exportOpen' = TRUE
    /\ UNCHANGED <<loaded, summaryDisk, loadedSummary>>
    /\ UNCHANGED <<mainvars, mvars, pathvars, concvars, toolvars>>

\* handle.write(...) of the next line reaches the file
save_memory_write ==
    /\ exportOpen
    /\ Len(transcriptFile) < Len(exportNew)
    /\ transcriptFile' =
            Append(transcriptFile, exportNew[Len(transcriptFile) + 1])
    /\ UNCHANGED <<exportOld, exportNew, exportOpen, loaded, summaryDisk,
                   loadedSummary>>
    /\ UNCHANGED <<mainvars, mvars, pathvars, concvars, toolvars>>

\* the with block ends after the last line
save_memory_close ==
    /\ exportOpen
    /\ Len(transcriptFile) = Len(exportNew)
    /\ exportOpen' = FALSE
    /\ UNCHANGED <<transcriptFile, exportOld, exportNew, loaded, summaryDisk,
                   loadedSummary>>
    /\ UNCHANGED <<mainvars, mvars, pathvars, concvars, toolvars>>

\* the process dies inside the with block: the file stays as far as written
crash_in_export ==
    /\ exportOpen
    /\ exportOpen' = FALSE
    /\ UNCHANGED <<transcriptFile, exportOld, exportNew, loaded, summaryDisk,
                   loadedSummary>>
    /\ UNCHANGED <<mainvars, mvars, pathvars, concvars, toolvars>>

\* outside of an export the files come to hold something else (edited,
\* damaged, replaced)
files_replaced ==
    /\ ~exportOpen
    /\ \E c \in Contents :
        /\ transcriptFile' = c
        /\ exportOld' = c
        /\ exportNew' = c
    /\ \E cond \in SummaryConditions : summaryDisk' = cond
    /\ loaded' = [status |-> "none", messages |-> <<>>]
    /\ loadedSummary' = [status |-> "none", text |-> "empty"]
    /\ UNCHANGED exportOpen
    /\ UNCHANGED <<mainvars, mvars, pathvars, concvars, toolvars>>

\* GET /api/sessions/{id}/messages: _read_messages, at any time
call_read_messages ==
    /\ loaded' = read_messages(transcriptFile)
    /\ UNCHANGED <<transcriptFile, exportOld, exportNew, exportOpen,
                   summaryDisk, loadedSummary>>
    /\ UNCHANGED <<mainvars, mvars, pathvars, concvars, toolvars>>

\* run_agent: summary = _load_summary(project)
call_load_summary ==
    /\ loadedSummary' = load_summary(summaryDisk)
    /\ UNCHANGED <<transcriptFile, exportOld, exportNew, exportOpen, loaded,
                   summaryDisk>>
    /\ UNCHANGED <<mainvars, mvars, pathvars, concvars, toolvars>>

NextFiles ==
    \/ save_memory_open
    \/ save_memory_write
    \/ save_memory_close
    \/ crash_in_export
    \/ files_replaced
    \/ call_read_messages
    \/ call_load_summary

SpecFiles == InitMemory /\ [][NextFiles]_vars

(* --------------------- requests on one project (app.py) ---------------- *)
\* send_message is a plain def endpoint: the server runs each request in a
\* worker thread of its own, and neither send_message nor run_agent takes
\* a lock for the project
send_message(r) ==
    /\ reqPc[r] = "idle"
    /\ reqPc' = [reqPc EXCEPT ![r] = "loop"]
    /\ UNCHANGED <<reqSteps, log>>
    /\ UNCHANGED <<mainvars, mvars, pathvars, filevars, toolvars>>

\* one superstep of the request's graph: its checkpoint is written
loop_step(r) ==
    /\ reqPc[r] = "loop"
    /\ reqSteps[r] < MaxLoopSteps
    /\ reqSteps' = [reqSteps EXCEPT ![r] = @ + 1]
    /\ log' = Append(log, [req |-> r, op |-> "checkpoint"])
    /\ UNCHANGED reqPc
    /\ UNCHANGED <<mainvars, mvars, pathvars, filevars, toolvars>>

\* graph.invoke returned, _save_memory writes the transcript
export_step(r) ==
    /\ reqPc[r] = "loop"
    /\ reqSteps[r] >= 1
    /\ reqPc' = [reqPc EXCEPT ![r] = "refresh"]
    /\ log' = Append(log, [req |-> r, op |-> "export"])
    /\ UNCHANGED reqSteps
    /\ UNCHANGED <<mainvars, mvars, pathvars, filevars, toolvars>>

\* _update_summary_if_needed, writing the summary or not, and the reply
refresh_step(r) ==
    /\ reqPc[r] = "refresh"
    /\ reqPc' = [reqPc EXCEPT ![r] = "returned"]
    /\ \/ log' = Append(log, [req |-> r, op |-> "summary"])
       \/ UNCHANGED log
    /\ UNCHANGED reqSteps
    /\ UNCHANGED <<mainvars, mvars, pathvars, filevars, toolvars>>

NextRequests ==
    \E r \in Requests :
        \/ send_message(r)
        \/ loop_step(r)
        \/ export_step(r)
        \/ refresh_step(r)

SpecRequests == InitMemory /\ [][NextRequests]_vars


(* --------------------------- tools.apply_patch ------------------------- *)
\* the project the patches are applied under
PatchProject == <<"a">>

\* the paths a patch may name: two files of the project and one path that
\* _safe_project_path rejects
PatchPaths ==
    { [absolute |-> FALSE, parts |-> << <<"f">> >>],
      [absolute |-> FALSE, parts |-> << <<"g">> >>],
      [absolute |-> FALSE, parts |-> << Dotdot, <<"f">> >>] }

\* the files of the project: a set of [target, lines]
file_exists(fs, target) == \E f \in fs : f.target = target

file_lines(fs, target) == (CHOOSE f \in fs : f.target = target).lines

without_file(fs, target) == { f \in fs : f.target # target }

with_file(fs, target, lines) ==
    without_file(fs, target) \cup { [target |-> target, lines |-> lines] }

\* _find_subsequence: index before the first occurrence, -1 when there is
\* none or the needle is empty
find_subsequence(haystack, needle) ==
    IF needle = <<>> THEN -1
    ELSE LET hits == { i \in 0..(Len(haystack) - Len(needle)) :
                         SubSeq(haystack, i + 1, i + Len(needle)) = needle }
         IN  IF hits = {} THEN -1
             ELSE CHOOSE i \in hits : \A j \in hits : i <= j

\* the lines of a hunk with one of the given prefixes, without the prefix
RECURSIVE hunk_side(_, _)
hunk_side(hunk, prefixes) ==
    IF hunk = <<>> THEN <<>>
    ELSE (IF hunk[1].prefix \in prefixes THEN <<hunk[1].body>> ELSE <<>>)
         \o hunk_side(Tail(hunk), prefixes)

\* _apply_hunk: None when the lines to replace are not found
apply_hunk(lines, hunk) ==
    LET before == hunk_side(hunk, {" ", "-"})
        after == hunk_side(hunk, {" ", "+"})
        start == find_subsequence(lines, before)
    IN  IF start = -1
        THEN [found |-> FALSE, lines |-> lines]
        ELSE [found |-> TRUE,
              lines |-> SubSeq(lines, 1, start) \o after
                        \o SubSeq(lines, start + Len(before) + 1, Len(lines))]

\* "for h in hunks": stops at the first hunk that is not found and keeps what
\* the hunks before it made of the lines
RECURSIVE apply_hunks(_, _)
apply_hunks(lines, hunks) ==
    IF hunks = <<>> THEN [found |-> TRUE, lines |-> lines]
    ELSE LET r == apply_hunk(lines, hunks[1])
         IN  IF r.found THEN apply_hunks(r.lines, Tail(hunks))
             ELSE [found |-> FALSE, lines |-> lines]

\* write_file(path, content, overwrite=False): a rejected path and an
\* existing file each come back as a message, not as an exception
write_file(fs, path, lines) ==
    LET p == safe_project_path(PatchProject, path)
    IN  IF p.status = "error" THEN fs
        ELSE IF file_exists(fs, p.target) THEN fs
        ELSE with_file(fs, p.target, lines)

Report(path, message) == [file |-> path, message |-> message]

\* the branch of apply_patch for "*** Add File:"
add_file(fs, op) ==
    [fs |-> write_file(fs, op.path, op.lines),
     applied |-> <<Report(op.path, "added")>>,
     errors |-> <<>>]

\* the branch for "*** Delete File:"
delete_file(fs, op) ==
    LET p == safe_project_path(PatchProject, op.path)
    IN  IF p.status = "error"
        THEN [fs |-> fs, applied |-> <<>>,
              errors |-> <<Report(op.path, "Delete File failed: path")>>]
        ELSE IF file_exists(fs, p.target)
        THEN [fs |-> without_file(fs, p.target),
              applied |-> <<Report(op.path, "deleted")>>,
              errors |-> <<>>]
        ELSE [fs |-> fs, applied |-> <<>>,
              errors |-> <<Report(op.path, "Delete File failed: not found")>>]

\* the branch for "*** Update File:"
update_file(fs, op) ==
    LET p == safe_project_path(PatchProject, op.path)
    IN  IF p.status = "error"
        THEN [fs |-> fs, applied |-> <<>>,
              errors |-> <<Report(op.path, "Update File failed: path")>>]
        ELSE IF ~file_exists(fs, p.target)
        THEN [fs |-> fs, applied |-> <<>>,
              errors |-> <<Report(op.path, "Update File failed: not found")>>]
        ELSE LET r == apply_hunks(file_lines(fs, p.target), op.hunks)
             IN  [fs |-> with_file(fs, p.target, r.lines),
                  applied |-> <<Report(op.path, "updated")>>,
                  errors |-> IF r.found THEN <<>>
                             ELSE <<Report(op.path,
                                      "Update File failed: hunk not found")>>]

apply_operation(fs, op) ==
    IF op.kind = "add" THEN add_file(fs, op)
    ELSE IF op.kind = "delete" THEN delete_file(fs, op)
    ELSE update_file(fs, op)

\* the while loop of apply_patch over the operations of the patch: what
\* every operation did and reported, in order
RECURSIVE patch_steps(_, _)
patch_steps(fs, ops) ==
    IF ops = <<>> THEN <<>>
    ELSE LET r == apply_operation(fs, ops[1])
         IN  <<r>> \o patch_steps(r.fs, Tail(ops))

RECURSIVE reports_of(_, _)
reports_of(steps, list) ==
    IF steps = <<>> THEN <<>>
    ELSE (IF list = "applied" THEN steps[1].applied ELSE steps[1].errors)
         \o reports_of(Tail(steps), list)

\* the hunks a patch may carry, as lines of prefix and text
HunkChoices ==
    { << [prefix |-> "-", body |-> "a"], [prefix |-> "+", body |-> "b"] >>,
      << [prefix |-> "-", body |-> "b"], [prefix |-> "+", body |-> "c"] >> }

AddedLines == { <<"a">>, <<"a", "b">> }

PatchOps ==
    { [kind |-> "add", path |-> path, lines |-> ls, hunks |-> <<>>] :
        path \in PatchPaths, ls \in AddedLines }
    \cup { [kind |-> "delete", path |-> path, lines |-> <<>>, hunks |-> <<>>] :
             path \in PatchPaths }
    \cup { [kind |-> "update", path |-> path, lines |-> <<>>, hunks |-> hs] :
             path \in PatchPaths,
             hs \in SeqsUpTo(HunkChoices, MaxHunks) \ { <<>> } }

\* a patch: its file operations in the order the text names them
Patches == SeqsUpTo(PatchOps, MaxPatchOps)

call_apply_patch ==
    /\ \E ops \in Patches :
        LET steps == patch_steps(patchFs, ops)
        IN  /\ patchArg' = ops
            /\ patchBefore' = patchFs
            /\ patchSteps' = steps
            /\ patchFs' = IF steps = <<>> THEN patchFs ELSE Last(steps).fs
            /\ patchResult' = [applied |-> reports_of(steps, "applied"),
                               errors |-> reports_of(steps, "errors")]
    /\ UNCHANGED <<mainvars, mvars, pathvars, filevars, concvars, eventvars>>

NextPatch == call_apply_patch

SpecPatch == InitMemory /\ [][NextPatch]_vars


(* -------------------------------- events ------------------------------- *)
\* set_loop(loop)
set_loop ==
    /\ ~evLoop
    /\ evLoop' = TRUE
    /\ UNCHANGED <<evQueues, evItems, evCallbacks, evWorkers, evStreams,
                   evEmitted, evCount>>
    /\ UNCHANGED <<mainvars, mvars, pathvars, filevars, concvars, patchvars>>

\* "if _loop is None: return False"
loop_missing_ignored == FALSE

loop_missing == ~evLoop

\* what set_view_asset finds before it emits: the path is rejected, names no
\* file, lies outside public/assets and out, or is an asset or an output
AssetChecks == {"rejected", "not_found", "elsewhere", "asset", "output"}

\* set_view_asset after emit returned: "if not ok: return {error}", else
\* {"success": True, ...}
view_result(ok) == IF ok THEN "success" ELSE "error"

\* bool returned by emit, as recorded for the worker
returned(ok) == IF ok THEN "true" ELSE "false"

\* the first line of _get_queue: "if session_id not in _queues"
after_check(s) == IF evQueues[s] = 0 THEN "store" ELSE "lookup"

\* a worker thread runs the tool set_view_asset, the caller of emit: the
\* checks of the asset, then emit up to the test of _loop and the
\* construction of the payload
worker_call(w) ==
    /\ evWorkers[w].pc = "idle"
    /\ \E s \in Sessions, chk \in AssetChecks :
        IF chk \notin {"asset", "output"}
        THEN /\ evWorkers' = [evWorkers EXCEPT ![w] =
                    [pc |-> "idle", session |-> "none", asset |-> FALSE,
                     ev |-> NoEvent, ok |-> "none", result |-> "error"]]
             /\ UNCHANGED evCount
        ELSE IF loop_missing
        THEN /\ evWorkers' = [evWorkers EXCEPT ![w] =
                    [pc |-> "idle", session |-> "none", asset |-> TRUE,
                     ev |-> NoEvent, ok |-> returned(FALSE),
                     result |-> view_result(FALSE)]]
             /\ UNCHANGED evCount
        ELSE /\ evCount < MaxEvents
             /\ evCount' = evCount + 1
             /\ evWorkers' = [evWorkers EXCEPT ![w] =
                    [pc |-> "check", session |-> s, asset |-> TRUE,
                     ev |-> [id |-> evCount + 1, session |-> s],
                     ok |-> "none", result |-> "none"]]
    /\ UNCHANGED <<evLoop, evQueues, evItems, evCallbacks, evStreams,
                   evEmitted>>
    /\ UNCHANGED <<mainvars, mvars, pathvars, filevars, concvars, patchvars>>

\* _get_queue in the worker thread: the membership test
worker_check(w) ==
    /\ evWorkers[w].pc = "check"
    /\ evWorkers' = [evWorkers EXCEPT
                        ![w].pc = after_check(evWorkers[w].session)]
    /\ UNCHANGED <<evLoop, evQueues, evItems, evCallbacks, evStreams,
                   evEmitted, evCount>>
    /\ UNCHANGED <<mainvars, mvars, pathvars, filevars, concvars, patchvars>>

\* "_queues[session_id] = asyncio.Queue()"
worker_store(w) ==
    /\ evWorkers[w].pc = "store"
    /\ evItems' = Append(evItems, [session |-> evWorkers[w].session,
                                   by |-> "emit", items |-> <<>>])
    /\ evQueues' = [evQueues EXCEPT ![evWorkers[w].session] = Len(evItems')]
    /\ evWorkers' = [evWorkers EXCEPT ![w].pc = "lookup"]
    /\ UNCHANGED <<evLoop, evCallbacks, evStreams, evEmitted, evCount>>
    /\ UNCHANGED <<mainvars, mvars, pathvars, filevars, concvars, patchvars>>

\* "return _queues[session_id]", then call_soon_threadsafe(queue.put_nowait,
\* payload) and "return True"; set_view_asset returns its success
worker_schedule(w) ==
    /\ evWorkers[w].pc = "lookup"
    /\ evCallbacks' = Append(evCallbacks,
                             [q |-> evQueues[evWorkers[w].session],
                              ev |-> evWorkers[w].ev])
    /\ evEmitted' = Append(evEmitted, evWorkers[w].ev)
    /\ evWorkers' = [evWorkers EXCEPT
                        ![w].pc = "idle",
                        ![w].session = "none",
                        ![w].ok = returned(TRUE),
                        ![w].result = view_result(TRUE)]
    /\ UNCHANGED <<evLoop, evQueues, evItems, evStreams, evCount>>
    /\ UNCHANGED <<mainvars, mvars, pathvars, filevars, concvars, patchvars>>

\* the loop thread runs one piece of synchronous code at a time: no callback
\* and no other stream runs while a stream is inside _get_queue
LoopThreadFree(c) ==
    \A d \in Consumers \ {c} : evStreams[d].pc \in {"off", "waiting"}

\* a client opens stream(session_id)
stream_open(c) ==
    /\ evStreams[c].pc = "off"
    /\ LoopThreadFree(c)
    /\ \E s \in Sessions :
        evStreams' = [evStreams EXCEPT ![c].pc = "check", ![c].session = s]
    /\ UNCHANGED <<evLoop, evQueues, evItems, evCallbacks, evWorkers,
                   evEmitted, evCount>>
    /\ UNCHANGED <<mainvars, mvars, pathvars, filevars, concvars, patchvars>>

\* _get_queue on the loop thread: the membership test
stream_check(c) ==
    /\ evStreams[c].pc = "check"
    /\ evStreams' = [evStreams EXCEPT
                        ![c].pc = after_check(evStreams[c].session)]
    /\ UNCHANGED <<evLoop, evQueues, evItems, evCallbacks, evWorkers,
                   evEmitted, evCount>>
    /\ UNCHANGED <<mainvars, mvars, pathvars, filevars, concvars, patchvars>>

stream_store(c) ==
    /\ evStreams[c].pc = "store"
    /\ evItems' = Append(evItems, [session |-> evStreams[c].session,
                                   by |-> "stream", items |-> <<>>])
    /\ evQueues' = [evQueues EXCEPT ![evStreams[c].session] = Len(evItems')]
    /\ evStreams' = [evStreams EXCEPT ![c].pc = "lookup"]
    /\ UNCHANGED <<evLoop, evCallbacks, evWorkers, evEmitted, evCount>>
    /\ UNCHANGED <<mainvars, mvars, pathvars, filevars, concvars, patchvars>>

\* "return _queues[session_id]"; the stream then waits on that queue
stream_lookup(c) ==
    /\ evStreams[c].pc = "lookup"
    /\ evStreams' = [evStreams EXCEPT
                        ![c].pc = "waiting",
                        ![c].q = evQueues[evStreams[c].session]]
    /\ UNCHANGED <<evLoop, evQueues, evItems, evCallbacks, evWorkers,
                   evEmitted, evCount>>
    /\ UNCHANGED <<mainvars, mvars, pathvars, filevars, concvars, patchvars>>

\* the loop runs the oldest scheduled callback: queue.put_nowait(payload)
run_callback ==
    /\ evCallbacks # <<>>
    /\ \A c \in Consumers : evStreams[c].pc \in {"off", "waiting"}
    /\ evItems' = [evItems EXCEPT ![evCallbacks[1].q].items =
                        Append(@, evCallbacks[1].ev)]
    /\ evCallbacks' = Tail(evCallbacks)
    /\ UNCHANGED <<evLoop, evQueues, evWorkers, evStreams, evEmitted, evCount>>
    /\ UNCHANGED <<mainvars, mvars, pathvars, filevars, concvars, patchvars>>

\* "payload = await queue.get()" returns and the stream yields the event
stream_yield(c) ==
    /\ evStreams[c].pc = "waiting"
    /\ LoopThreadFree(c)
    /\ evItems[evStreams[c].q].items # <<>>
    /\ evStreams' = [evStreams EXCEPT ![c].got =
                        Append(@, Head(evItems[evStreams[c].q].items))]
    /\ evItems' = [evItems EXCEPT ![evStreams[c].q].items = Tail(@)]
    /\ UNCHANGED <<evLoop, evQueues, evCallbacks, evWorkers, evEmitted,
                   evCount>>
    /\ UNCHANGED <<mainvars, mvars, pathvars, filevars, concvars, patchvars>>

NextEvents ==
    \/ set_loop
    \/ run_callback
    \/ \E w \in Workers :
        \/ worker_call(w)
        \/ worker_check(w)
        \/ worker_store(w)
        \/ worker_schedule(w)
    \/ \E c \in Consumers :
        \/ stream_open(c)
        \/ stream_check(c)
        \/ stream_store(c)
        \/ stream_lookup(c)
        \/ stream_yield(c)

SpecEvents == InitMemory /\ [][NextEvents]_vars

(* ------------------------------ properties ----------------------------- *)
HasCalls(m) == m.type = "ai" /\ Len(m.calls) > 0

\* the model turn at position i is directly followed by one tool message per
\* requested call, in request order, each referencing its call
Answered(ms, i) ==
    LET k == Len(ms[i].calls)
    IN  /\ i + k <= Len(ms)
        /\ \A j \in 1..k :
            /\ ms[i + j].type = "tool"
            /\ ms[i + j].ref = ms[i].calls[j].id

\* C1: a run makes at most max_steps logical model invocations, and a run
\* whose first iteration already has step >= max_steps (max_steps = 0) ends
\* normally, in DONE, without invoking the model.
C1_CeilingTestedBeforeInvocation ==
    /\ invocations <= argMaxSteps
    /\ (pc = "idle" /\ runs > 0 /\ cause # "credential" /\ argMaxSteps = 0)
        => (outcome = "returned" /\ invocations = 0)

\* C2: after a model turn the loop is in DONE exactly when that turn has no
\* tool calls or step has reached max_steps, and goes to the tools otherwise;
\* DONE is entered in no other way, and a completed dispatch leads back to
\* the model.
C2_DoneExactlyWhen ==
    [][ /\ (state'.step = state.step + 1) =>
            /\ (pc' = "done") <=>
                    (\/ Len(Last(state'.messages).calls) = 0
                     \/ state'.step >= state'.max_steps)
            /\ (pc' = "tools") <=>
                    (/\ Len(Last(state'.messages).calls) > 0
                     /\ state'.step < state'.max_steps)
        /\ (pc' = "done" /\ pc # "done") =>
            (pc = "agent" /\ state'.step = state.step + 1)
        /\ (pc = "tools" /\ pc' # "tools" /\ outcome' # "raised") =>
            (pc' = "agent" /\ callResult' = "pending")
      ]_vars

C2_Witness ==
    /\ pc = "done"
    /\ Len(Last(state.messages).calls) = 0
    /\ state.step < state.max_steps

\* C3: every model turn with K tool calls that the loop has moved past is
\* directly followed by exactly its K tool results, in request order, each
\* referencing its call.
C3_EveryTurnAnswered ==
    \A i \in 1..Len(state.messages) :
        (HasCalls(state.messages[i])
            /\ ~(pc = "tools" /\ i = Len(state.messages)))
        => /\ Answered(state.messages, i)
           /\ \A j \in 1..Len(state.messages[i].calls) :
                Cardinality({d \in 1..Len(dispatched) : dispatched[d] =
                                state.messages[i].calls[j].id}) <= 1

\* C4: in the accumulated message sequence every tool-calling model turn that
\* has a successor is directly followed by its tool results (never by a model
\* or user turn), and every tool result references a call of an earlier turn.
C4_PairsAcrossRuns ==
    /\ \A i \in 1..Len(ckpt.messages) :
        (HasCalls(ckpt.messages[i]) /\ i < Len(ckpt.messages))
            => Answered(ckpt.messages, i)
    /\ \A i \in 1..Len(ckpt.messages) :
        ckpt.messages[i].type = "tool" =>
            \E h \in 1..(i - 1) :
                /\ ckpt.messages[h].type = "ai"
                /\ \E j \in 1..Len(ckpt.messages[h].calls) :
                    ckpt.messages[h].calls[j].id = ckpt.messages[i].ref

\* C5: no checkpoint holds a tool-calling model turn without its tool
\* results.
C5_CheckpointNeverSplitsPair ==
    \A i \in 1..Len(ckpt.messages) :
        HasCalls(ckpt.messages[i]) => Answered(ckpt.messages, i)

\* C6: a model call makes at most 4 attempts, sleeping 2, 4, 8 seconds before
\* the 2nd, 3rd, 4th; nothing is attempted after a success; the failure is
\* raised only when the 4th attempt failed.
C6_RetrySchedule ==
    /\ [](/\ attempt \in 0..3
          /\ callResult = "pending" =>
                slept = SubSeq(<<2, 4, 8>>, 1, attempt - 1)
          /\ callResult \in {"returned", "raised"} =>
                slept = SubSeq(<<2, 4, 8>>, 1, attempt)
          /\ callResult = "raised" => attempt = 3)
    /\ [][ /\ callResult \in {"returned", "raised"} =>
                \/ /\ attempt' = attempt
                   /\ slept' = slept
                   /\ callResult' = callResult
                \/ /\ attempt' = 0
                   /\ slept' = <<>>
                   /\ callResult' \in {"pending", "none"}
           /\ (callResult = "pending" /\ callResult' = "pending") =>
                (attempt' = attempt + 1 /\ pc' = pc)
         ]_vars

C6_Witness ==
    /\ callResult = "raised"
    /\ slept = <<2, 4, 8>>
    /\ pc = "idle"

\* C7: when every attempt of a loop model call has failed the run raises,
\* never reaches DONE or a normal return, and dispatches no tool afterwards;
\* when it was the run's first call the run dispatched nothing.
C7_ModelFailureIsFatal ==
    /\ [][ (pc = "agent" /\ callResult' = "raised") =>
                /\ pc' = "idle"
                /\ outcome' = "raised"
                /\ dispatched' = dispatched
                /\ memoryFile' = memoryFile
                /\ summaryFile' = summaryFile ]_vars
    /\ []((cause = "model" /\ runs > 0 /\ outcome # "none") =>
                /\ pc = "idle"
                /\ outcome = "raised"
                /\ (invocations = 1 => dispatched = <<>>))

C7_Witness ==
    /\ cause = "model"
    /\ outcome = "raised"
    /\ invocations = 1
    /\ attempt = 3

\* C8: a dispatch never ends the run: whatever the calls come to (unknown
\* name, handler raising, time-out), one tool message per call is appended
\* and the model is invoked next.
C8_ToolFailureNeverEndsRun ==
    [][ pc = "tools" =>
            /\ pc' = "agent"
            /\ Len(state'.messages) =
                    Len(state.messages) + Len(Last(state.messages).calls)
            /\ outcome' # "raised" ]_vars

\* C9: step is 0 at run start, grows by exactly 1 with each successful model
\* invocation, is untouched by dispatch and by failed attempts, never exceeds
\* max_steps, and in DONE equals the number of model invocations of the run.
C9_StepCounter ==
    /\ [](/\ state.step \in 0..state.max_steps
          /\ pc = "done" => invocations = state.step)
    /\ [][ /\ (pc = "idle" /\ pc' = "agent") => state'.step = 0
           /\ (pc = "agent" /\ callResult' = "returned") =>
                state'.step = state.step + 1
           /\ (pc = "agent" /\ callResult' # "returned") =>
                state'.step = state.step
           /\ pc = "tools" => state'.step = state.step ]_vars

C9_Witness ==
    /\ pc = "done"
    /\ state.step = 2
    /\ invocations = 2
    /\ Len(dispatched) = 1
    /\ Len(Last(state.messages).calls) = 0

\* C10: a run started on a checkpointed project begins from the checkpointed
\* messages followed by the new user turn, and what a checkpoint held stays a
\* prefix of the state and of every later checkpoint.
C10_CheckpointKeptAsPrefix ==
    [][ /\ IsPrefix(ckpt.messages, ckpt'.messages)
        /\ IsPrefix(ckpt.messages, state'.messages)
        /\ (pc = "idle" /\ pc' = "agent") =>
            /\ Len(state'.messages) = Len(ckpt.messages) + 1
            /\ SubSeq(state'.messages, 1, Len(ckpt.messages)) = ckpt.messages
            /\ Last(state'.messages).type = "human" ]_vars

C10_Witness ==
    /\ runs = 2
    /\ pc = "agent"
    /\ Len(state.messages) >= 3
    /\ Last(state.messages).type = "human"
    /\ state.messages[1].type = "human"

(* ------------------------ rolling summary (Spec) ----------------------- *)
\* C16: when the estimated cost of the full history is below the trigger
\* budget, the refresh keeps the summary it was given, writes nothing to the
\* summary file and calls no model: the run returns straight from the
\* transcript export, and the summarizer is only ever entered at or above
\* the trigger.
C16_BelowTriggerNoRefresh ==
    /\ [][(pc = "done"
           /\ estimate_tokens(state.messages) < DEFAULT_SUMMARY_TRIGGER_TOKENS)
          => /\ summary' = summary
             /\ summaryFile' = summaryFile
             /\ pc' = "idle"
             /\ callResult' = "none"
             /\ outcome' = "returned"]_vars
    /\ [](pc = "summarize"
          => estimate_tokens(state.messages) >= DEFAULT_SUMMARY_TRIGGER_TOKENS)

\* a run that returned below the trigger without any summarizer call
C16_Witness ==
    /\ pc = "idle"
    /\ outcome = "returned"
    /\ callResult = "none"
    /\ Len(memoryFile) >= 2
    /\ estimate_tokens(state.messages) < DEFAULT_SUMMARY_TRIGGER_TOKENS

\* C17: every summary the refresh returns and every content of the summary
\* file is at most 7500 characters long, truncation marker included.
C17_SummaryWithinCeiling ==
    /\ summary <= DEFAULT_SUMMARY_MAX_CHARS
    /\ summaryFile <= DEFAULT_SUMMARY_MAX_CHARS

\* C18: at or above the trigger, a successful summarizer call persists a
\* non-empty summary, and the persisted summary is the returned one.
C18_PersistsNonEmptySummary ==
    [][(pc = "summarize" /\ callResult' = "returned")
       => /\ estimate_tokens(state.messages) >= DEFAULT_SUMMARY_TRIGGER_TOKENS
          /\ summaryFile' > 0
          /\ summaryFile' = summary']_vars

\* C19: when the summarizer's call fails with its retries used up, the
\* summary and the summary file stay as they were and the run returns its
\* result instead of raising.
C19_SummarizerFailureSwallowed ==
    [][(pc = "summarize" /\ callResult' = "raised")
       => /\ summary' = summary
          /\ summaryFile' = summaryFile
          /\ memoryFile' = memoryFile
          /\ pc' = "idle"
          /\ outcome' = "returned"]_vars

\* a run that returned although the summarizer went through the whole
\* retry schedule and failed
C19_Witness ==
    /\ pc = "idle"
    /\ outcome = "returned"
    /\ callResult = "raised"
    /\ slept = delays
    /\ estimate_tokens(state.messages) >= DEFAULT_SUMMARY_TRIGGER_TOKENS

(* -------------------- short-term window (SpecMemory) ------------------- *)
\* the part of the candidate window that fits the token budget holds no
\* user turn
NoUserInFit(ms) ==
    LET rs == recent_messages(ms)
    IN  \A k \in 1..fitting(rs) : rs[Len(rs) - k + 1].type # "human"

\* C11: when no user message lies in the part of the candidate window that
\* fits the token budget, the window returned is the untrimmed candidate:
\* the most recent up-to-50 messages.
C11_FallsBackToCandidate ==
    (mop = "context" /\ NoUserInFit(history))
        => window = recent_messages(history)

\* C12: the window is a contiguous suffix of the most recent 50 messages,
\* and, trimming not having fallen back to the candidate, it costs at most
\* 200000 tokens and begins with a user turn.
C12_WindowIsBudgetedSuffix ==
    mop = "context"
        => LET rs == recent_messages(history)
           IN  /\ Len(window) <= Len(rs)
               /\ window = Suffix(rs, Len(window))
               /\ estimate_tokens(window) <= DEFAULT_CONTEXT_MAX_TOKENS
               /\ window # <<>>
               /\ window[1].type = "human"

\* C13: with a user message in the candidate window, the first message of
\* the window is never a tool result nor a model turn with pending calls.
C13_WindowNeverStartsInsidePair ==
    (mop = "context"
     /\ \E i \in DOMAIN recent_messages(history) :
            recent_messages(history)[i].type = "human")
        => \/ window = <<>>
           \/ (window[1].type # "tool" /\ ~HasCalls(window[1]))

\* the candidate began with a model turn with calls or a tool result, and
\* the window is what is left of it from its first user turn on
C13_Witness ==
    /\ mop = "context"
    /\ window # <<>>
    /\ Len(window) < Len(recent_messages(history))
    /\ LET first == recent_messages(history)[1]
       IN  first.type = "tool" \/ HasCalls(first)
    /\ window[1].type = "human"

(* ----------------------- token estimate (SpecMemory) ------------------- *)
\* characters of the text-bearing parts of a message
text_chars(m) ==
    IF m.content = "parts"
    THEN LET RECURSIVE TextOf(_)
             TextOf(ps) == IF ps = <<>> THEN 0
                           ELSE ps[1].text + TextOf(Tail(ps))
         IN  TextOf(m.parts)
    ELSE m.chars

RECURSIVE TextCharsIn(_, _, _)
TextCharsIn(ms, lo, hi) ==
    IF lo > hi THEN 0
    ELSE IF lo = hi THEN text_chars(ms[lo])
    ELSE LET mid == (lo + hi) \div 2
         IN  TextCharsIn(ms, lo, mid) + TextCharsIn(ms, mid + 1, hi)

\* C14: the estimate is max(1, C div 4) with C the characters of the
\* text-bearing parts only; image, audio and video parts add nothing.
C14_MediaNotCounted ==
    estimated = Max(1, TextCharsIn(history, 1, Len(history)) \div 4)

\* C15: appending messages never lowers the estimate, and the estimate is
\* always an integer of at least 1.
C15_EstimateMonotone ==
    /\ [](estimated \in Nat /\ estimated >= 1)
    /\ [][mop' = "append" => estimated' >= estimated]_vars

\* messages with text were appended to a history that already cost more
\* than the minimum
C15_Witness ==
    /\ mop = "append"
    /\ nblocks >= 2
    /\ history[1].chars > 4
    /\ history[Len(history)].chars > 0
    /\ history[Len(history)].content = "text"
    /\ estimated > 1

(* --------------------- transcript export (SpecMemory) ------------------ *)
NonSystem(ms, from) ==
    { j \in from..Len(ms) : ms[j].type # "system" }

\* C20: the exported transcript holds no system message, at most 300
\* entries, and exactly the most recent min(300, n) of the n non-system
\* input messages, in their order.
C20_ExportIsRecentNonSystem ==
    mop = "export"
        => LET n == Cardinality(NonSystem(history, 1))
               len == Len(transcript)
           IN  /\ \A i \in 1..len : transcript[i].type # "system"
               /\ len <= DEFAULT_MEMORY_EXPORT_MAX_MESSAGES
               /\ len = (IF n < DEFAULT_MEMORY_EXPORT_MAX_MESSAGES
                         THEN n ELSE DEFAULT_MEMORY_EXPORT_MAX_MESSAGES)
               /\ \A i \in 1..len :
                    /\ transcript[i].id \in 1..Len(history)
                    /\ transcript[i] = history[transcript[i].id]
                    /\ i > 1 => transcript[i - 1].id < transcript[i].id
               /\ len > 0 =>
                    Cardinality(NonSystem(history, transcript[1].id)) = len

\* more than 300 non-system messages, system messages among the input, and
\* the oldest input message is not in the export
C20_Witness ==
    /\ mop = "export"
    /\ Len(transcript) = DEFAULT_MEMORY_EXPORT_MAX_MESSAGES
    /\ Cardinality(NonSystem(history, 1)) > DEFAULT_MEMORY_EXPORT_MAX_MESSAGES
    /\ \E j \in 1..Len(history) : history[j].type = "system"
    /\ history[1].type # "system"
    /\ transcript[1].id > 1

(* --------------------------- whole runs (Spec) ------------------------- *)
\* the accumulated messages hold a single user turn: the run in progress or
\* just ended began on a project without checkpoint, transcript or summary
FreshProject == Cardinality({ i \in DOMAIN state.messages :
                                state.messages[i].type = "human" }) = 1

\* C21: after a successful run on a fresh project the transcript is the
\* run's messages in loop order: the user turn, then every model turn
\* directly followed by its tool results; one invocation without tool calls
\* gives a transcript of exactly the user turn and the model turn.
C21_TranscriptInLoopOrder ==
    (pc = "idle" /\ outcome = "returned" /\ FreshProject)
        => /\ memoryFile = state.messages
           /\ memoryFile[1].type = "human"
           /\ \A i \in 2..Len(memoryFile) : memoryFile[i].type \in {"ai", "tool"}
           /\ \A i \in 1..Len(memoryFile) :
                HasCalls(memoryFile[i]) => Answered(memoryFile, i)
           /\ (invocations = 1 /\ ~HasCalls(Last(memoryFile)))
                => (Len(memoryFile) = 2 /\ memoryFile[2].type = "ai")

\* C24: a run that finds the credential missing raises with no model call
\* and no tool dispatch, and leaves checkpoint, transcript and summary file
\* as they were.
C24_MissingCredentialTouchesNothing ==
    [][(runs' = runs + 1 /\ cause' = "credential")
       => /\ outcome' = "raised"
          /\ invocations' = 0
          /\ dispatched' = <<>>
          /\ ckpt' = ckpt
          /\ memoryFile' = memoryFile
          /\ summaryFile' = summaryFile
          /\ pc' = "idle"]_vars

\* the credential went missing on a project that already has a checkpoint,
\* a transcript and a summary
C24_Witness ==
    /\ cause = "credential"
    /\ outcome = "raised"
    /\ runs = 2
    /\ ckpt.messages # <<>>
    /\ memoryFile # <<>>
    /\ summaryFile > 0
    /\ invocations = 0

C27_ContextLayout ==
    /\ [][pc = "agent"
          => LET n == IF summary > 0 THEN 2 ELSE 1
                 w == trimmed_window(state.messages)
             IN  /\ Len(ctx') = n + Len(w)
                 /\ ctx'[1] = SystemMessage(0, PromptChars)
                 /\ summary > 0
                      => ctx'[2] = SystemMessage(0, SummaryHeaderChars + summary)
                 /\ SubSeq(ctx', n + 1, Len(ctx')) = w
                 /\ \A i \in n + 1..Len(ctx') : ctx'[i].type # "system"]_vars
    /\ [](/\ \A i \in DOMAIN state.messages :
                state.messages[i].type # "system"
          /\ \A i \in DOMAIN ckpt.messages :
                ckpt.messages[i].type # "system")

\* a context with prompt, summary message and a window that begins with a
\* user turn
C27_Witness ==
    /\ pc \in {"tools", "done"}
    /\ summary > 0
    /\ Len(ctx) >= 4
    /\ ctx[2] = SystemMessage(0, SummaryHeaderChars + summary)
    /\ ctx[3].type = "human"

\* C28: the summary read at run start is the one every context of the run
\* carries; the transcript is written only once the loop has ended, from
\* the final messages, and the summary file only after that export.
C28_MemoryOrder ==
    /\ [](pc \in {"agent", "tools", "done"} => summary = summaryFile)
    /\ [][(pc \in {"agent", "tools", "done"}) => summary' = summary]_vars
    /\ [][pc = "agent"
          => \A i \in 2..Len(ctx') :
                ctx'[i].type = "system"
                    => ctx'[i].chars = SummaryHeaderChars + summary]_vars
    /\ [][memoryFile' # memoryFile
          => /\ pc = "done"
             /\ state' = state
             /\ memoryFile' = state.messages]_vars
    /\ [][summaryFile' # summaryFile
          => /\ pc = "summarize"
             /\ state' = state
             /\ memoryFile' = memoryFile
             /\ memoryFile = state.messages]_vars

\* a second run whose contexts carried the summary of the first, and that
\* exported its transcript and then refreshed the summary
C28_Witness ==
    /\ pc = "idle"
    /\ runs = 2
    /\ outcome = "returned"
    /\ callResult = "returned"
    /\ Len(ctx) >= 3
    /\ ctx[2].type = "system"
    /\ memoryFile = state.messages
    /\ summaryFile = summary
    /\ summaryFile > 0

(* ------------------- user turn in context (SpecMemory) ---------------- *)
\* C30: the context of a model invocation holds at least one user message,
\* and the context built for a history that is one new user turn holds
\* that turn, whatever its text length and attachments.
C30_ContextHasUserTurn ==
    mop = "context"
        => /\ \E i \in DOMAIN context : context[i].type = "human"
           /\ nblocks = 1
                => \E i \in DOMAIN context : context[i] = Last(history)

(* ------------------------ project paths (SpecPaths) -------------------- *)
\* C29: whatever the path and the active project, a path that
\* _safe_project_path returns lies inside the active project's directory.
C29_PathStaysInProject ==
    (ctx_project_id # <<>> /\ pathResult.status = "ok")
        => IsPrefix(project_root(ctx_project_id), pathResult.target)

(* -------------------- files on disk (SpecFiles) ------------------------ *)
\* C22: at every point, a crash during the export included, the transcript
\* file holds the complete previous export or the complete new one.
C22_TranscriptNeverPartial ==
    transcriptFile = exportOld \/ transcriptFile = exportNew

\* a line that is no message record and no empty line
Unparseable(lines) ==
    \E i \in DOMAIN lines : lines[i].kind \in {"garbage", "scalar", "bad_data"}

\* C25: whatever the transcript file and the summary file hold, loading
\* raises nothing, and content that cannot be read, decoded or parsed loads
\* as empty memory.
C25_CorruptMemoryLoadsEmpty ==
    /\ [][loaded' # loaded
          => /\ loaded'.status = "ok"
             /\ Unparseable(transcriptFile) => loaded'.messages = <<>>]_vars
    /\ [][loadedSummary' # loadedSummary
          => /\ loadedSummary'.status = "ok"
             /\ summaryDisk = "unreadable"
                    => loadedSummary'.text = "empty"]_vars

(* ------------------ one run per project (SpecRequests) ----------------- *)
\* a request whose run is between its start and its return
Running(r) == reqPc[r] \in {"loop", "refresh"}

\* C23: at most one run executes for the project at any time, and the
\* checkpoint writes, exports and summary writes of two requests are never
\* interleaved.
C23_OneRunPerProject ==
    /\ Cardinality({ r \in Requests : Running(r) }) <= 1
    /\ \A i, j, k \in DOMAIN log :
            (i < j /\ j < k /\ log[i].req = log[k].req)
                => log[j].req = log[i].req

(* ------------------- runs that follow one another ---------------------- *)
\* C31: a run that fails fatally in the loop (the model call's retries are
\* used up) leaves the transcript file and the summary file as they were
\* before the run: no step from the run's start to the failure writes them;
\* at the failure the checkpoint holds the run's user turn and everything
\* appended before the failure, and the next run's history begins with it
C31_FatalFailureKeepsCheckpointOnly ==
    [][ /\ (pc' \in {"agent", "tools"} \/ (pc = "agent" /\ pc' = "idle"))
            => /\ memoryFile' = memoryFile
               /\ summaryFile' = summaryFile
        /\ (pc = "agent" /\ pc' = "idle")
            => /\ outcome' = "raised"
               /\ ckpt' = ckpt
               /\ ckpt.messages = state.messages
               /\ \E i \in DOMAIN ckpt.messages :
                    /\ ckpt.messages[i].type = "human"
                    /\ \A j \in (i + 1)..Len(ckpt.messages) :
                            ckpt.messages[j].type # "human"
                    /\ Len(ckpt.messages) - i >= supersteps
        /\ (pc = "idle" /\ pc' = "agent")
            => /\ IsPrefix(ckpt.messages, state'.messages)
               /\ Len(state'.messages) = Len(ckpt.messages) + 1
      ]_vars

\* a second run has started on a project whose first run failed in the loop
\* after a model turn and its tool result had been appended
C31_Witness ==
    /\ handle_tool_errors = "all"
    /\ runs = 2
    /\ pc = "agent"
    /\ invocations = 0
    /\ memoryFile = <<>>
    /\ Len(state.messages) = 4
    /\ HasCalls(state.messages[2])
    /\ state.messages[3].type = "tool"
    /\ state.messages[4].type = "human"

\* C32: every run starts with the step counter at 0 and max_steps at the
\* run's argument, whatever the checkpoint held, and no run invokes the model
\* more often than its own max_steps
C32_StepCounterResetPerRun ==
    [][ /\ (pc = "idle" /\ pc' = "agent")
            => /\ state'.step = 0
               /\ state'.max_steps = argMaxSteps'
               /\ ckpt'.step = 0
               /\ ckpt'.max_steps = argMaxSteps'
        /\ (pc' \in {"agent", "tools", "done"})
            => /\ state'.step <= argMaxSteps'
               /\ invocations' <= state'.step + 1
               /\ invocations' <= argMaxSteps'
      ]_vars

\* the first run stopped at its ceiling of one step with a call pending; the
\* second run, with a ceiling of two, has used both of its steps
C32_Witness ==
    /\ handle_tool_errors = "all"
    /\ runs = 2
    /\ argMaxSteps = 2
    /\ state.step = 2
    /\ invocations = 2
    /\ pc = "done"
    /\ HasCalls(state.messages[2])
    /\ state.messages[3].type = "human"

\* C33: with max_steps >= 1 no run is ended by the recursion limit: whenever a
\* further superstep is due, fewer than 2 * max_steps have been executed
C33_RecursionLimitNeverReached ==
    /\ (cause = "recursion_limit") => argMaxSteps < 1
    /\ (pc \in {"agent", "tools"})
            => supersteps < recursion_limit(argMaxSteps)
    /\ supersteps <= 2 * argMaxSteps

\* the step ceiling has ended a run of two steps after three supersteps, with
\* a tool call still requested by the last turn
C33_Witness ==
    /\ pc = "done"
    /\ argMaxSteps = 2
    /\ state.step = 2
    /\ supersteps = 3
    /\ HasCalls(Last(state.messages))

\* C34: the estimated cost of the checkpointed history never falls, so once
\* it has reached the summary trigger every run that completes its loop goes
\* on to call the summarizer
C34_TriggerStaysReached ==
    [][ /\ estimate_tokens(ckpt.messages) >= DEFAULT_SUMMARY_TRIGGER_TOKENS
            => estimate_tokens(ckpt'.messages)
                    >= DEFAULT_SUMMARY_TRIGGER_TOKENS
        /\ IsPrefix(ckpt.messages, ckpt'.messages)
        /\ (pc = "done"
            /\ estimate_tokens(ckpt.messages) >= DEFAULT_SUMMARY_TRIGGER_TOKENS)
            => /\ pc' = "summarize"
               /\ callResult' = "pending"
      ]_vars

\* the first run's user turn alone reached the trigger; the second run, whose
\* own messages are small, is calling the summarizer
C34_Witness ==
    /\ runs = 2
    /\ pc = "summarize"
    /\ state.messages[1].chars = BigChars
    /\ \E i \in 2..Len(state.messages) :
        /\ state.messages[i].type = "human"
        /\ state.messages[i].chars = SmallChars
        /\ estimate_tokens(Suffix(state.messages, Len(state.messages) - i + 1))
                < DEFAULT_SUMMARY_TRIGGER_TOKENS

(* ------------------------------ apply_patch ---------------------------- *)
\* the files before operation k of the latest patch
FilesBefore(k) == IF k = 1 THEN patchBefore ELSE patchSteps[k - 1].fs

\* the change an operation asks for, made in full on the files fs: adding a
\* file that is not there yet, deleting one that is, replacing what every
\* hunk names in a file that is there
ChangeInFull(fs, op, after) ==
    LET p == safe_project_path(PatchProject, op.path)
    IN  /\ p.status = "ok"
        /\ IF op.kind = "add"
           THEN /\ ~file_exists(fs, p.target)
                /\ after = with_file(fs, p.target, op.lines)
           ELSE IF op.kind = "delete"
           THEN /\ file_exists(fs, p.target)
                /\ after = without_file(fs, p.target)
           ELSE /\ file_exists(fs, p.target)
                /\ apply_hunks(file_lines(fs, p.target), op.hunks).found
                /\ after = with_file(fs, p.target,
                        apply_hunks(file_lines(fs, p.target), op.hunks).lines)

\* C35: every file operation of a patch is reported exactly once, in
\* 'applied' or in 'errors', and in 'applied' only when its change was made
\* in full
C35_PatchReportsEachOperationOnce ==
    /\ Len(patchSteps) = Len(patchArg)
    /\ \A k \in DOMAIN patchSteps :
        /\ Len(patchSteps[k].applied) + Len(patchSteps[k].errors) = 1
        /\ \A e \in DOMAIN patchSteps[k].applied :
                patchSteps[k].applied[e].file = patchArg[k].path
        /\ \A e \in DOMAIN patchSteps[k].errors :
                patchSteps[k].errors[e].file = patchArg[k].path
        /\ Len(patchSteps[k].applied) = 1
            => ChangeInFull(FilesBefore(k), patchArg[k], patchSteps[k].fs)

(* -------------------------------- events ------------------------------- *)
\* position of an event among those emit accepted
EmittedAt(ev) == CHOOSE i \in DOMAIN evEmitted : evEmitted[i] = ev

\* the events of a session that emit accepted and no stream has yielded yet
\* are on their way to the queue registered for the session, and every
\* waiting stream waits on the queue registered for its session
OnTheSessionsQueue ==
    /\ \A i \in DOMAIN evCallbacks :
            evCallbacks[i].q = evQueues[evCallbacks[i].ev.session]
    /\ \A q \in DOMAIN evItems :
            evItems[q].items # <<>> => evQueues[evItems[q].session] = q
    /\ \A c \in Consumers :
            evStreams[c].pc = "waiting"
                => evStreams[c].q = evQueues[evStreams[c].session]

\* C36: an event emit accepted for a session reaches a stream of that session
\* and no other, once, and in emission order, whatever the interleaving of
\* emit and stream inside _get_queue
C36_EventsDeliveredOnceInOrder ==
    /\ \A c \in Consumers : \A i \in DOMAIN evStreams[c].got :
        /\ evStreams[c].got[i].session = evStreams[c].session
        /\ \E k \in DOMAIN evEmitted : evEmitted[k] = evStreams[c].got[i]
        /\ \A j \in DOMAIN evStreams[c].got :
                i < j => EmittedAt(evStreams[c].got[i])
                            < EmittedAt(evStreams[c].got[j])
        /\ \A d \in Consumers \ {c} : \A j \in DOMAIN evStreams[d].got :
                evStreams[d].got[j] # evStreams[c].got[i]
    /\ OnTheSessionsQueue

\* the event of a worker's call has been handed over: scheduled on, lying
\* in, or already yielded from a queue created for its session
HandedOver(ev) ==
    /\ \E k \in DOMAIN evEmitted : evEmitted[k] = ev
    /\ \/ \E i \in DOMAIN evCallbacks :
            /\ evCallbacks[i].ev = ev
            /\ evItems[evCallbacks[i].q].session = ev.session
       \/ \E q \in DOMAIN evItems :
            /\ evItems[q].session = ev.session
            /\ \E i \in DOMAIN evItems[q].items : evItems[q].items[i] = ev
       \/ \E c \in Consumers : \E i \in DOMAIN evStreams[c].got :
            /\ evStreams[c].got[i] = ev
            /\ evStreams[c].session = ev.session

\* C37: while no loop is registered emit returns False, schedules nothing and
\* creates no queue, and set_view_asset returns an error; set_view_asset
\* returns success only when its event was handed over
C37_NoLoopNoEvent ==
    /\ ~evLoop
        => /\ \A q \in DOMAIN evItems :
                /\ evItems[q].by # "emit"
                /\ evItems[q].items = <<>>
           /\ evCallbacks = <<>>
           /\ evEmitted = <<>>
           /\ \A w \in Workers :
                /\ evWorkers[w].pc = "idle"
                /\ evWorkers[w].ok \in {"none", "false"}
                /\ evWorkers[w].result \in {"none", "error"}
                /\ evWorkers[w].asset => evWorkers[w].ok = "false"
    /\ \A w \in Workers :
        /\ evWorkers[w].result = "success"
            => /\ evWorkers[w].asset
               /\ evWorkers[w].ok = "true"
        /\ evWorkers[w].ok = "true" => HandedOver(evWorkers[w].ev)

\* set_view_asset was called for a file under public/assets or out before
\* any loop was registered, while a stream was waiting, and returned the error
C37_Witness ==
    /\ ~evLoop
    /\ \E c \in Consumers : evStreams[c].pc = "waiting"
    /\ \E w \in Workers :
        /\ evWorkers[w].asset
        /\ evWorkers[w].ok = "false"
        /\ evWorkers[w].result = "error"

====
